---- MODULE Spec2Model ----
(***************************************************************************)
(* Komi32 / Mult32 / Combo32: 32-bit hashers of a byte string and a 64-bit *)
(* seed.  Unsigned C integers are modelled as little-endian sequences of   *)
(* bytes (index 1 = least significant byte): uint32_t is a sequence of 4   *)
(* bytes, uint64_t a sequence of 8 bytes.  All arithmetic keeps the C      *)
(* width (results are reduced modulo 2^32 or 2^64).                        *)
(***************************************************************************)
EXTENDS Naturals, Integers, Sequences, FiniteSets, TLC

(***************************************************************************)
(* Bounds of the model.                                                    *)
(***************************************************************************)
\* Sequential calls use every message length 0..MaxLen and the length
\* LongLen, a length whose bulk loop wraps the table index around.
MaxLen == 130
LongLen == 248
\* The bulk loop of Komi32_impl on its own runs MaxBlocks iterations.
MaxBlocks == 4
\* Concurrent calls use the message length ConcLen, a length whose bulk
\* loop reads the last entries of the table.
ConcLen == 126

(***************************************************************************)
(* C integer arithmetic on byte sequences.                                 *)
(***************************************************************************)
\* XorNib[a + 1][b + 1] = a ^ b for the 4-bit values a and b
XorNib ==
   << <<0, 1, 2, 3, 4, 5, 6, 7, 8, 9, 10, 11, 12, 13, 14, 15>>,
      <<1, 0, 3, 2, 5, 4, 7, 6, 9, 8, 11, 10, 13, 12, 15, 14>>,
      <<2, 3, 0, 1, 6, 7, 4, 5, 10, 11, 8, 9, 14, 15, 12, 13>>,
      <<3, 2, 1, 0, 7, 6, 5, 4, 11, 10, 9, 8, 15, 14, 13, 12>>,
      <<4, 5, 6, 7, 0, 1, 2, 3, 12, 13, 14, 15, 8, 9, 10, 11>>,
      <<5, 4, 7, 6, 1, 0, 3, 2, 13, 12, 15, 14, 9, 8, 11, 10>>,
      <<6, 7, 4, 5, 2, 3, 0, 1, 14, 15, 12, 13, 10, 11, 8, 9>>,
      <<7, 6, 5, 4, 3, 2, 1, 0, 15, 14, 13, 12, 11, 10, 9, 8>>,
      <<8, 9, 10, 11, 12, 13, 14, 15, 0, 1, 2, 3, 4, 5, 6, 7>>,
      <<9, 8, 11, 10, 13, 12, 15, 14, 1, 0, 3, 2, 5, 4, 7, 6>>,
      <<10, 11, 8, 9, 14, 15, 12, 13, 2, 3, 0, 1, 6, 7, 4, 5>>,
      <<11, 10, 9, 8, 15, 14, 13, 12, 3, 2, 1, 0, 7, 6, 5, 4>>,
      <<12, 13, 14, 15, 8, 9, 10, 11, 4, 5, 6, 7, 0, 1, 2, 3>>,
      <<13, 12, 15, 14, 9, 8, 11, 10, 5, 4, 7, 6, 1, 0, 3, 2>>,
      <<14, 15, 12, 13, 10, 11, 8, 9, 6, 7, 4, 5, 2, 3, 0, 1>>,
      <<15, 14, 13, 12, 11, 10, 9, 8, 7, 6, 5, 4, 3, 2, 1, 0>> >>

\* AndNib[a + 1][b + 1] = a & b for the 4-bit values a and b
AndNib ==
   << <<0, 0, 0, 0, 0, 0, 0, 0, 0, 0, 0, 0, 0, 0, 0, 0>>,
      <<0, 1, 0, 1, 0, 1, 0, 1, 0, 1, 0, 1, 0, 1, 0, 1>>,
      <<0, 0, 2, 2, 0, 0, 2, 2, 0, 0, 2, 2, 0, 0, 2, 2>>,
      <<0, 1, 2, 3, 0, 1, 2, 3, 0, 1, 2, 3, 0, 1, 2, 3>>,
      <<0, 0, 0, 0, 4, 4, 4, 4, 0, 0, 0, 0, 4, 4, 4, 4>>,
      <<0, 1, 0, 1, 4, 5, 4, 5, 0, 1, 0, 1, 4, 5, 4, 5>>,
      <<0, 0, 2, 2, 4, 4, 6, 6, 0, 0, 2, 2, 4, 4, 6, 6>>,
      <<0, 1, 2, 3, 4, 5, 6, 7, 0, 1, 2, 3, 4, 5, 6, 7>>,
      <<0, 0, 0, 0, 0, 0, 0, 0, 8, 8, 8, 8, 8, 8, 8, 8>>,
      <<0, 1, 0, 1, 0, 1, 0, 1, 8, 9, 8, 9, 8, 9, 8, 9>>,
      <<0, 0, 2, 2, 0, 0, 2, 2, 8, 8, 10, 10, 8, 8, 10, 10>>,
      <<0, 1, 2, 3, 0, 1, 2, 3, 8, 9, 10, 11, 8, 9, 10, 11>>,
      <<0, 0, 0, 0, 4, 4, 4, 4, 8, 8, 8, 8, 12, 12, 12, 12>>,
      <<0, 1, 0, 1, 4, 5, 4, 5, 8, 9, 8, 9, 12, 13, 12, 13>>,
      <<0, 0, 2, 2, 4, 4, 6, 6, 8, 8, 10, 10, 12, 12, 14, 14>>,
      <<0, 1, 2, 3, 4, 5, 6, 7, 8, 9, 10, 11, 12, 13, 14, 15>> >>

XorByte(a, b) ==
    XorNib[(a \div 16) + 1][(b \div 16) + 1] * 16 + XorNib[(a % 16) + 1][(b % 16) + 1]

AndByte(a, b) ==
    AndNib[(a \div 16) + 1][(b \div 16) + 1] * 16 + AndNib[(a % 16) + 1][(b % 16) + 1]

\* the word of the bytes F(1), ..., F(w), for w = 4 or w = 8
Word(F(_), w) ==
    IF w = 4 THEN <<F(1), F(2), F(3), F(4)>>
    ELSE <<F(1), F(2), F(3), F(4), F(5), F(6), F(7), F(8)>>

\* a ^ b on words of the same width
Xor(a, b) == LET F(k) == XorByte(a[k], b[k]) IN Word(F, Len(a))

\* a & b on words of the same width
And(a, b) == LET F(k) == AndByte(a[k], b[k]) IN Word(F, Len(a))

OrByte(a, b) == a + b - AndByte(a, b)

\* a | b on words of the same width
Or(a, b) == LET F(k) == OrByte(a[k], b[k]) IN Word(F, Len(a))

\* the w-byte word of a small natural number (n < 2^31)
RECURSIVE ToWord(_, _)
ToWord(n, w) == IF w = 0 THEN <<>> ELSE <<n % 256>> \o ToWord(n \div 256, w - 1)

\* the natural number of a word whose value is below 2^31
RECURSIVE WordToNat(_)
WordToNat(a) == IF a = <<>> THEN 0 ELSE a[1] + 256 * WordToNat(Tail(a))

\* (uint32_t)x : the low 32 bits of a 64-bit word
Lo32(x) == SubSeq(x, 1, 4)

\* (uint32_t)(x >> 32) : the high 32 bits of a 64-bit word
Hi32(x) == SubSeq(x, 5, 8)

\* (uint64_t)x : a 32-bit word widened to 64 bits
Widen(x) == x \o <<0, 0, 0, 0>>

RECURSIVE AddCarry(_, _, _)
AddCarry(a, b, c) ==
    IF a = <<>> THEN <<>>
    ELSE LET s == a[1] + b[1] + c
         IN  <<s % 256>> \o AddCarry(Tail(a), Tail(b), s \div 256)

\* a + b modulo 2^(width)
Add(a, b) == AddCarry(a, b, 0)

\* the sum of the byte products a[i] * b[j] with i + j - 1 = k
RECURSIVE ColSum(_, _, _, _)
ColSum(a, b, k, i) ==
    IF i > Len(a) \/ i > k THEN 0
    ELSE (IF k + 1 - i <= Len(b) THEN a[i] * b[k + 1 - i] ELSE 0)
         + ColSum(a, b, k, i + 1)

RECURSIVE MulCols(_, _, _, _, _)
MulCols(a, b, k, w, c) ==
    IF k > w THEN <<>>
    ELSE LET s == ColSum(a, b, k, 1) + c
         IN  <<s % 256>> \o MulCols(a, b, k + 1, w, s \div 256)

\* a * b modulo 2^(8w)
Mul(a, b, w) == MulCols(a, b, 1, w, 0)

\* 2^n for 0 <= n <= 8
Pow2(n) == CASE n = 0 -> 1 [] n = 1 -> 2 [] n = 2 -> 4 [] n = 3 -> 8 [] n = 4 -> 16
             [] n = 5 -> 32 [] n = 6 -> 64 [] n = 7 -> 128 [] OTHER -> 256

\* byte k of the word a, 0 outside it
ByteAt(a, k) == IF k >= 1 /\ k <= Len(a) THEN a[k] ELSE 0

\* a >> n (logical shift right of an unsigned word, n below the width)
Shr(a, n) ==
    LET q == n \div 8
        lo == Pow2(n % 8)
        hi == Pow2(8 - (n % 8))
        F(k) == (ByteAt(a, k + q) \div lo) + ((ByteAt(a, k + q + 1) * hi) % 256)
    IN  Word(F, Len(a))

\* a << n (shift left of an unsigned word, bits shifted out are lost)
Shl(a, n) ==
    LET q == n \div 8
        lo == Pow2(n % 8)
        hi == Pow2(8 - (n % 8))
        F(k) == ((ByteAt(a, k - q) * lo) % 256) + (ByteAt(a, k - q - 1) \div hi)
    IN  Word(F, Len(a))

(***************************************************************************)
(* The random table of the long hasher and its generator (mult32.h).       *)
(***************************************************************************)
RANDOM_POWER == 128

RANDOM_EXTRA == 9

RANDOM_LENGTH == RANDOM_POWER + RANDOM_EXTRA

\* n copies of the value v
RECURSIVE Repeat(_, _)
Repeat(v, n) ==
    IF n = 0 THEN <<>>
    ELSE IF n = 1 THEN <<v>>
    ELSE Repeat(v, n \div 2) \o Repeat(v, n - (n \div 2))

\* static uint64_t mult32_random[RANDOM_LENGTH]: zero before Mult32_init runs.
\* The table is a sequence: entry i of the C array is element i + 1.
ZeroTable == Repeat(<<0, 0, 0, 0, 0, 0, 0, 0>>, RANDOM_LENGTH)

\* mult32_random[i]
Entry(tab, i) == tab[i + 1]

\* 0xBF58476D1CE4E5B9
SplitMixMul1 == <<185, 229, 228, 28, 109, 71, 88, 191>>

\* 0x94D049BB133111EB
SplitMixMul2 == <<235, 17, 49, 19, 187, 73, 208, 148>>

\* One round of SplitMix64
SplitMix64(x) ==
    LET r1 == Mul(Xor(x, Shr(x, 30)), SplitMixMul1, 8)
        r2 == Mul(Xor(r1, Shr(r1, 27)), SplitMixMul2, 8)
    IN  Xor(r2, Shr(r2, 31))

\* y = 0x9E3779B97F4A7C15
SplitMixInc == <<21, 124, 74, 127, 185, 121, 55, 158>>

\* struct Xorshift128p_state seeded by two rounds of SplitMix64
Xorshift128p_init(seed) ==
    LET xa == Add(seed, SplitMixInc)
        xb == Add(xa, SplitMixInc)
    IN  <<SplitMix64(xa), SplitMix64(xb)>>

Xorshift128p_sumBefore(state) ==
    LET x0 == state[1]
        x1 == state[2]
        a  == Xor(x0, Shl(x0, 23))
        b  == Xor(a, Shr(a, 18))
        c  == Xor(b, Xor(x1, Shr(x1, 5)))
    IN  [state |-> <<x1, c>>, out |-> Add(x0, x1)]

\* One round of Xorshift+: the new state and the value returned
Xorshift128p(state) ==
    LET x0 == state[1]
        x1 == state[2]
        a  == Xor(x0, Shl(x0, 23))
        b  == Xor(a, Shr(a, 18))
        c  == Xor(b, Xor(x1, Shr(x1, 5)))
    IN  [state |-> <<x1, c>>, out |-> Add(c, x1)]

\* seed = 0xDEADBEEFDEADBEEF
InitSeed == <<239, 190, 173, 222, 239, 190, 173, 222>>

\* mult32_random[i] = v : the new content of an entry that held old
InitWriteXor(old, v) == Xor(old, v)

InitWrite(old, v) == v

\* One iteration of the loop of Mult32_init: entry j is written
InitStep(tab, state, j) ==
    LET r == Xorshift128p(state)
    IN  [tab |-> [tab EXCEPT ![j + 1] = InitWrite(Entry(tab, j), r.out)], state |-> r.state]

\* Iterations lo..hi of the loop of Mult32_init, in increasing order of j.
\* The range is split in two halves; h is the table and the generator after
\* the first half, r after the second half.
RECURSIVE InitLoop(_, _, _, _)
InitLoop(tab, state, lo, hi) ==
    IF lo = hi THEN InitStep(tab, state, lo)
    ELSE LET mid == (lo + hi) \div 2
         IN  CHOOSE r \in {InitLoop(h.tab, h.state, mid + 1, hi) :
                              h \in {InitLoop(tab, state, lo, mid)}} : TRUE

\* Mult32_init(): the table after the call, from the table before it
Mult32_init(tab) ==
    InitLoop(tab, Xorshift128p_init(InitSeed), 0, RANDOM_LENGTH - 1).tab

\* The content the generator assigns to the table
FinalTable == Mult32_init(ZeroTable)

(***************************************************************************)
(* Input messages.  A message is named by a pattern and a length; byte     *)
(* off of the message of pattern pat is MsgByte(pat, off).                 *)
(***************************************************************************)
Patterns == {"zero", "ramp"}

MsgByte(pat, off) == IF pat = "zero" THEN 0 ELSE (off * 37 + 11) % 256

\* 0 and 0x0123456789ABCDEF
Seeds == {<<0, 0, 0, 0, 0, 0, 0, 0>>, <<239, 205, 171, 137, 103, 69, 35, 1>>}

Lengths == (0..MaxLen) \cup {LongLen}

\* memcpy(&val, m, k) on a little-endian host built with NO_SWAP: the k bytes
\* at offsets off..off+k-1 become the k low bytes of the value
RECURSIVE LoadBytes(_, _, _)
LoadBytes(pat, off, k) ==
    IF k = 0 THEN <<>>
    ELSE <<MsgByte(pat, off)>> \o LoadBytes(pat, off + 1, k - 1)

\* the offsets read by a load of k bytes at offset off
LoadSet(off, k) == off..(off + k - 1)

\* GET_U32(m, i) of komi32.h, m being the message at offset off
GET_U32(pat, off, i) == LoadBytes(pat, off + i, 4)

(***************************************************************************)
(* Komi32 (komi32.h): the rounds.                                          *)
(***************************************************************************)
\* 0xC5A308D3
KomiSeed1 == <<211, 8, 163, 197>>

\* 0xB8D01377
KomiSeed5 == <<119, 19, 208, 184>>

\* 0x55555555
Mask55 == <<85, 85, 85, 85>>

\* 0xAAAAAAAA
MaskAA == <<170, 170, 170, 170>>

\* kh_m64(m1, m2, rl, rh): the 64-bit product of two 32-bit words
kh_m64(m1, m2) ==
    LET r == Mul(m1, m2, 8)
    IN  [rl |-> Lo32(r), rh |-> Hi32(r)]

\* Seed5 += r.rh; Seed1 = Seed5 ^ r.rl
FoldProduct(Seed5, r) ==
    LET s5 == Add(Seed5, r.rh)
    IN  [Seed1 |-> Xor(s5, r.rl), Seed5 |-> s5]

\* KOMI32_HASH8(m): m0 and m4 are GET_U32(m, 0) and GET_U32(m, 4)
KOMI32_HASH8(Seed1, Seed5, m0, m4) ==
    FoldProduct(Seed5, kh_m64(Xor(Seed1, m0), Xor(Seed5, m4)))

\* KOMI32_HASHROUND()
KOMI32_HASHROUND(Seed1, Seed5) == FoldProduct(Seed5, kh_m64(Seed1, Seed5))

\* KOMI32_SEEDHASH4(x) as komi32.h defines it
KOMI32_SEEDHASH4_komi(Seed1, Seed5, x) ==
    FoldProduct(Seed5, kh_m64(Xor(Seed1, And(x, Mask55)), Xor(Seed5, And(x, MaskAA))))

\* mult32_m64(m1, m2) of mult32.h: (uint64_t)m1 * m2, m2 a 64-bit word
mult32_m64(m1, m2) == Mul(Widen(m1), m2, 8)

KOMI32_SEEDHASH4_oldSeed5(Seed1, Seed5, x) ==
    LET prod == mult32_m64(Xor(Seed1, And(x, Mask55)),
                           Widen(Xor(Seed5, And(x, MaskAA))))
        s5   == Add(Seed5, Hi32(prod))
    IN  [Seed1 |-> Xor(Seed5, Lo32(prod)), Seed5 |-> s5]

\* KOMI32_SEEDHASH4(x) as mult32.h defines it
KOMI32_SEEDHASH4(Seed1, Seed5, x) ==
    LET prod == mult32_m64(Xor(Seed1, And(x, Mask55)),
                           Widen(Xor(Seed5, And(x, MaskAA))))
        s5   == Add(Seed5, Hi32(prod))
    IN  [Seed1 |-> Xor(s5, Lo32(prod)), Seed5 |-> s5]

FinalWord32NoPad(bytes, fb) == bytes \o SubSeq(<<0, 0, 0, 0>>, 1, 4 - Len(bytes))

\* the body of komi32_final_bytes: bytes are the MsgLen = 0..3 bytes copied
\* into m = 0 by memcpy(&m, Msg, MsgLen); m | (fb << (MsgLen << 3))
FinalWord32(bytes, fb) ==
    LET m == bytes \o SubSeq(<<0, 0, 0, 0>>, 1, 4 - Len(bytes))
    IN  Or(m, Shl(fb, Len(bytes) * 8))

\* komi32_final_bytes(Msg, MsgLen, fb): Msg is the message at offset off,
\* fb is a 32-bit word and MsgLen is 0..3
komi32_final_bytes(pat, off, MsgLen, fb) ==
    FinalWord32(LoadBytes(pat, off, MsgLen), fb)

\* fb = 1 << (Msg[MsgLen - 1] >> 7), from the byte read
PadWord(byte) == ToWord(Pow2(byte \div 128), 4)

\* the switch of KOMI32_FINALIZE on the tail of 0..7 bytes at Msg: the word
\* XORed into Seed1 and the word XORed into Seed5 (Seed5 is left alone, here
\* the word 0, when 0..3 bytes remain)
KomiFinalWords(tail, fb) ==
    IF Len(tail) >= 4
    THEN <<SubSeq(tail, 1, 4), FinalWord32(SubSeq(tail, 5, Len(tail)), fb)>>
    ELSE <<FinalWord32(tail, fb), <<0, 0, 0, 0>> >>

(***************************************************************************)
(* The local state of one call.  pc is the position in the code, MsgLen    *)
(* the remaining length, off the offset of the pointer Msg in the input    *)
(* buffer.  rd is the set of buffer offsets read by the last step, padoff  *)
(* the offset of the pad byte read by the last step (-1: none), tix the    *)
(* set of table indexes read by the last step and tval the table value     *)
(* read.  sh, pr, tb and trn count the seed-hash rounds, the parameterless *)
(* rounds, the 8-byte blocks of the tail switch and the parameterless      *)
(* rounds of the tail switch of the call.  init is the number of runs of   *)
(* Mult32_init the call started, late tells that the call wrote a table    *)
(* entry while oneTimeDone was 1.  j and gen are the loop index and the    *)
(* generator state of the call's run of Mult32_init.  fb is the pad word  *)
(* of KOMI32_FINALIZE.  mix is the set of buffer offsets whose bytes the   *)
(* last step mixed into the hash state and nmix the number of bytes mixed  *)
(* in since the call started.                                              *)
(***************************************************************************)
Zero32 == <<0, 0, 0, 0>>

Zero64 == <<0, 0, 0, 0, 0, 0, 0, 0>>

Idle ==
    [pc |-> "idle", via |-> "none", fn |-> "none", len |-> 0, pat |-> "zero",
     seed |-> Zero64, MsgLen |-> 0, off |-> 0,
     Seed1 |-> Zero32, Seed2 |-> Zero32, Seed3 |-> Zero32, Seed4 |-> Zero32,
     Seed5 |-> Zero32, Seed6 |-> Zero32, Seed7 |-> Zero32, Seed8 |-> Zero32,
     hash |-> Zero64, i |-> 0, cnt |-> 0, j |-> 0, gen |-> <<Zero64, Zero64>>,
     rd |-> {}, padoff |-> -1, tix |-> {}, tval |-> Zero64,
     sh |-> 0, pr |-> 0, tb |-> 0, trn |-> 0, init |-> 0, late |-> FALSE,
     fb |-> Zero32, mix |-> {}, nmix |-> 0, result |-> Zero32]

\* the local state at the entry of hasher fn, called through via
Enter(via, fn, pat, len, seed, pc) ==
    [Idle EXCEPT !.pc = pc, !.via = via, !.fn = fn, !.len = len, !.pat = pat,
                 !.seed = seed, !.MsgLen = len]

\* the fields describing the reads of the last step, when it read nothing
NoRead(st) == [st EXCEPT !.rd = {}, !.padoff = -1, !.tix = {}, !.mix = {}]

(***************************************************************************)
(* Komi32_impl (komi32.h), one operator per block of the code.             *)
(***************************************************************************)
\* Seed1, Seed5 initialised and UseSeed ^ MsgLen mixed in; then the branch
\* on MsgLen == 0 and on MsgLen >= 32
KSeed(st) ==
    LET u == Xor(st.seed, ToWord(st.len, 8))
        a == KOMI32_SEEDHASH4(KomiSeed1, KomiSeed5, Lo32(u))
        b == KOMI32_SEEDHASH4(a.Seed1, a.Seed5, Hi32(u))
    IN  [NoRead(st) EXCEPT !.Seed1 = b.Seed1, !.Seed5 = b.Seed5, !.sh = 2,
            !.pc = IF st.MsgLen = 0 THEN "kempty"
                   ELSE IF st.MsgLen >= 32 THEN "klanes" ELSE "ktail"]

KEmptyOneRound(st) ==
    LET a == KOMI32_HASHROUND(st.Seed1, st.Seed5)
    IN  [NoRead(st) EXCEPT !.Seed1 = a.Seed1, !.Seed5 = a.Seed5,
            !.pr = st.pr + 1, !.result = a.Seed1, !.pc = "done"]

\* MsgLen == 0: two rounds and return Seed1
KEmpty(st) ==
    LET a == KOMI32_HASHROUND(st.Seed1, st.Seed5)
        b == KOMI32_HASHROUND(a.Seed1, a.Seed5)
    IN  [NoRead(st) EXCEPT !.Seed1 = b.Seed1, !.Seed5 = b.Seed5,
            !.pr = st.pr + 2, !.result = b.Seed1, !.pc = "done"]

\* Seed2..Seed4 and Seed6..Seed8 derived from Seed1 and Seed5
KLanes(st) ==
    [NoRead(st) EXCEPT
        !.Seed2 = Xor(<<68, 115, 112, 3>>, st.Seed1),
        !.Seed3 = Xor(<<208, 49, 159, 41>>, st.Seed1),
        !.Seed4 = Xor(<<137, 108, 78, 236>>, st.Seed1),
        !.Seed6 = Xor(<<108, 12, 233, 52>>, st.Seed5),
        !.Seed7 = Xor(<<221, 80, 124, 201>>, st.Seed5),
        !.Seed8 = Xor(<<23, 9, 71, 181>>, st.Seed5),
        !.pc = "kbulk"]

KBulkNoWrap(st) ==
    LET G(k) == GET_U32(st.pat, st.off, k)
        r1 == kh_m64(Xor(st.Seed1, G(0)), Xor(st.Seed5, G(4)))
        s5 == Add(st.Seed5, r1.rh)
        r2 == kh_m64(Xor(st.Seed2, G(8)), Xor(st.Seed6, G(12)))
        s2 == Xor(s5, r2.rl)
        s6 == Add(st.Seed6, r2.rh)
        r3 == kh_m64(Xor(st.Seed3, G(16)), Xor(st.Seed7, G(20)))
        s3 == Xor(s6, r3.rl)
        s7 == Add(st.Seed7, r3.rh)
        r4 == kh_m64(Xor(st.Seed4, G(24)), Xor(st.Seed8, G(28)))
        s4 == Xor(s7, r4.rl)
        s8 == Add(st.Seed8, r4.rh)
        s1 == Xor(st.Seed1, r1.rl)
    IN  [NoRead(st) EXCEPT
            !.Seed1 = s1, !.Seed2 = s2, !.Seed3 = s3, !.Seed4 = s4,
            !.Seed5 = s5, !.Seed6 = s6, !.Seed7 = s7, !.Seed8 = s8,
            !.rd = LoadSet(st.off, 32),
            !.mix = LoadSet(st.off, 32), !.nmix = st.nmix + 32,
            !.off = st.off + 32, !.MsgLen = st.MsgLen - 32,
            !.pc = IF st.MsgLen - 32 >= 32 THEN "kbulk" ELSE "kfold"]

\* One iteration of the do-while loop: a 32-byte block
KBulk(st) ==
    LET G(k) == GET_U32(st.pat, st.off, k)
        r1 == kh_m64(Xor(st.Seed1, G(0)), Xor(st.Seed5, G(4)))
        s5 == Add(st.Seed5, r1.rh)
        r2 == kh_m64(Xor(st.Seed2, G(8)), Xor(st.Seed6, G(12)))
        s2 == Xor(s5, r2.rl)
        s6 == Add(st.Seed6, r2.rh)
        r3 == kh_m64(Xor(st.Seed3, G(16)), Xor(st.Seed7, G(20)))
        s3 == Xor(s6, r3.rl)
        s7 == Add(st.Seed7, r3.rh)
        r4 == kh_m64(Xor(st.Seed4, G(24)), Xor(st.Seed8, G(28)))
        s4 == Xor(s7, r4.rl)
        s8 == Add(st.Seed8, r4.rh)
        s1 == Xor(s8, r1.rl)
    IN  [NoRead(st) EXCEPT
            !.Seed1 = s1, !.Seed2 = s2, !.Seed3 = s3, !.Seed4 = s4,
            !.Seed5 = s5, !.Seed6 = s6, !.Seed7 = s7, !.Seed8 = s8,
            !.rd = LoadSet(st.off, 32),
            !.mix = LoadSet(st.off, 32), !.nmix = st.nmix + 32,
            !.off = st.off + 32, !.MsgLen = st.MsgLen - 32,
            !.pc = IF st.MsgLen - 32 >= 32 THEN "kbulk" ELSE "kfold"]

\* The eight lanes folded back into Seed1 and Seed5
KFold(st) ==
    [NoRead(st) EXCEPT
        !.Seed5 = Xor(st.Seed5, Xor(st.Seed6, Xor(st.Seed7, st.Seed8))),
        !.Seed1 = Xor(st.Seed1, Xor(st.Seed2, Xor(st.Seed3, st.Seed4))),
        !.pc = "ktail"]

MsgNotAdvanced(off) == off

\* Msg += 8 in a case of the switch, Msg being at offset off
MsgPlus8(off) == off + 8

\* numHash8 = (MsgLen >> 3) & 3
KomiTailBlocks(MsgLen) == (MsgLen \div 8) % 4

\* numHash8 = (MsgLen >> 3) & 3 and the entry into the switch
KTail(st) ==
    LET numHash8 == KomiTailBlocks(st.MsgLen)
    IN  [NoRead(st) EXCEPT !.cnt = numHash8,
            !.pc = IF numHash8 = 0 THEN "kfinal" ELSE "ktblk"]

\* One case of the switch: KOMI32_HASH8(Msg); Msg += 8; the last case also
\* does MsgLen &= 7
KTBlk(st) ==
    LET r == KOMI32_HASH8(st.Seed1, st.Seed5,
                          GET_U32(st.pat, st.off, 0), GET_U32(st.pat, st.off, 4))
    IN  [NoRead(st) EXCEPT !.Seed1 = r.Seed1, !.Seed5 = r.Seed5,
            !.rd = LoadSet(st.off, 8),
        !.mix = LoadSet(st.off, 8), !.nmix = st.nmix + 8, !.off = MsgPlus8(st.off),
            !.cnt = st.cnt - 1, !.tb = st.tb + 1,
            !.MsgLen = IF st.cnt = 1 THEN st.MsgLen % 8 ELSE st.MsgLen,
            !.pc = IF st.cnt = 1 THEN "kfinal" ELSE "ktblk"]

\* the offset of Msg[MsgLen - 1], Msg being at offset off
PadOffsetPastEnd(off, MsgLen) == off + MsgLen

PadOffsetInTail(off, MsgLen) == MsgLen - 1

PadOffset(off, MsgLen) == off + MsgLen - 1

\* KOMI32_FINALIZE() and return Seed1
KFinal(st) ==
    LET padoff == PadOffset(st.off, st.MsgLen)
        fb  == PadWord(MsgByte(st.pat, padoff))
        w   == KomiFinalWords(LoadBytes(st.pat, st.off, st.MsgLen), fb)
        s1  == Xor(st.Seed1, w[1])
        s5  == IF st.MsgLen >= 4 THEN Xor(st.Seed5, w[2]) ELSE st.Seed5
        a   == KOMI32_HASHROUND(s1, s5)
        b   == KOMI32_HASHROUND(a.Seed1, a.Seed5)
    IN  [NoRead(st) EXCEPT !.Seed1 = b.Seed1, !.Seed5 = b.Seed5,
            !.padoff = padoff, !.fb = fb,
            !.rd = {padoff} \cup LoadSet(st.off, st.MsgLen),
            !.mix = LoadSet(st.off, st.MsgLen), !.nmix = st.nmix + st.MsgLen,
            !.pr = st.pr + 2, !.result = b.Seed1, !.pc = "done"]

\* The step of Komi32_impl at the position st.pc
KomiStep(st) ==
    CASE st.pc = "kseed"  -> KSeed(st)
      [] st.pc = "kempty" -> KEmpty(st)
      [] st.pc = "klanes" -> KLanes(st)
      [] st.pc = "kbulk"  -> KBulk(st)
      [] st.pc = "kfold"  -> KFold(st)
      [] st.pc = "ktail"  -> KTail(st)
      [] st.pc = "ktblk"  -> KTBlk(st)
      [] st.pc = "kfinal" -> KFinal(st)
      [] OTHER            -> st

RECURSIVE KomiRun(_)
KomiRun(st) == IF st.pc = "done" THEN st ELSE KomiRun(KomiStep(st))

\* Komi32_impl(in, len, UseSeed): the value returned
Komi32_impl(pat, len, seed) ==
    KomiRun(Enter("Komi32", "Komi32", pat, len, seed, "kseed")).result

\* Komi32(in, len, seed)
Komi32(pat, len, seed) == Komi32_impl(pat, len, seed)

(***************************************************************************)
(* Mult32_impl (mult32.h): the rounds, then one operator per block of the  *)
(* code.  Every operator reads at most one entry of the table tab.         *)
(***************************************************************************)
\* hash ^= mult32_m64((uint32_t)val, val >> 32)
MultFold(hash, val) == Xor(hash, mult32_m64(Lo32(val), Widen(Hi32(val))))

\* MULT32_HASH8(m, i): m8 is the 8-byte block read, tv the table entry read
MULT32_HASH8(hash, m8, tv) == MultFold(hash, Xor(m8, tv))

\* MULT32_HASHROUND(i)
MULT32_HASHROUND(hash, tv) == MultFold(hash, tv)

\* MULT32_VALHASH8(x, i)
MULT32_VALHASH8(hash, x, tv) == MultFold(hash, Xor(x, tv))

PadPatternZeroByte == <<237, 188, 0, 220, 237, 188, 0, 220>>

\* 0xDCADBCEDDCADBCED as it lies in the memory of a little-endian host
PadPattern == <<237, 188, 173, 220, 237, 188, 173, 220>>

\* final_bytes(Msg, MsgLen): bytes are the MsgLen bytes at Msg (0..7 of them)
final_bytes(bytes, MsgLen) == bytes \o SubSeq(PadPattern, MsgLen + 1, 8)

\* MULT32_FINALIZE(msg, len, i)
MULT32_FINALIZE(hash, bytes, MsgLen, tv) ==
    MULT32_VALHASH8(hash, final_bytes(bytes, MsgLen), tv)

\* a & b on small natural numbers
AndNat(a, b) == WordToNat(And(ToWord(a, 8), ToWord(b, 8)))

\* RANDOM_POWER - 1, the mask of the table index
IndexMask == RANDOM_POWER - 1

RemaskLength(i) == AndNat(i, RANDOM_LENGTH - 1)

\* i &= RANDOM_POWER - 1 at the end of an iteration of the bulk loop
Remask(i) == AndNat(i, IndexMask)

TailBlocksMod4(MsgLen) == (MsgLen \div 8) % 4

\* numHash8 = (MsgLen >> 3) & 7
TailBlocks(MsgLen) == (MsgLen \div 8) % 8

\* the fields of a step that reads entry st.i of the table and advances i
ReadEntry(st, tab) ==
    [NoRead(st) EXCEPT !.tix = {st.i}, !.tval = Entry(tab, st.i), !.i = st.i + 1]

\* hash and i initialised, the first MULT32_VALHASH8, and the loop test
MStart(st, tab) ==
    LET len64 == ToWord(st.len, 8)
        h0 == Xor(st.seed, len64)
        i0 == WordToNat(And(Xor(Shr(len64, 6), len64), ToWord(IndexMask, 8)))
    IN  [ReadEntry([st EXCEPT !.i = i0], tab) EXCEPT
            !.hash = MULT32_VALHASH8(h0, h0, Entry(tab, i0)),
            !.cnt = 8,
            !.pc = IF st.MsgLen >= 64 THEN "mblk" ELSE "mtail"]

\* One MULT32_HASH8(Msg, i) of the unrolled loop body
MBlk(st, tab) ==
    [ReadEntry(st, tab) EXCEPT
        !.hash = MULT32_HASH8(st.hash, LoadBytes(st.pat, st.off, 8), Entry(tab, st.i)),
        !.rd = LoadSet(st.off, 8),
        !.mix = LoadSet(st.off, 8), !.nmix = st.nmix + 8, !.off = st.off + 8,
        !.cnt = st.cnt - 1,
        !.pc = IF st.cnt = 1 THEN "mround" ELSE "mblk"]

\* MULT32_HASHROUND(i); i &= RANDOM_POWER - 1; MsgLen -= 64; the loop test
MRound(st, tab) ==
    [ReadEntry(st, tab) EXCEPT
        !.hash = MULT32_HASHROUND(st.hash, Entry(tab, st.i)),
        !.i = Remask(st.i + 1),
        !.pr = st.pr + 1,
        !.MsgLen = st.MsgLen - 64,
        !.cnt = 8,
        !.pc = IF st.MsgLen - 64 >= 64 THEN "mblk" ELSE "mtail"]

\* numHash8 = (MsgLen >> 3) & 7 and the entry into the switch
MTail(st, tab) ==
    LET numHash8 == TailBlocks(st.MsgLen)
    IN  [NoRead(st) EXCEPT !.cnt = numHash8,
            !.pc = IF numHash8 = 0 THEN "mfinal" ELSE "mtblk"]

\* One MULT32_HASH8(Msg, i) of the switch
MTBlk(st, tab) ==
    [ReadEntry(st, tab) EXCEPT
        !.hash = MULT32_HASH8(st.hash, LoadBytes(st.pat, st.off, 8), Entry(tab, st.i)),
        !.rd = LoadSet(st.off, 8),
        !.mix = LoadSet(st.off, 8), !.nmix = st.nmix + 8, !.off = st.off + 8,
        !.cnt = st.cnt - 1, !.tb = st.tb + 1,
        !.pc = IF st.cnt = 1 THEN "mtround" ELSE "mtblk"]

\* case 1 of the switch, after its MULT32_HASH8: MULT32_HASHROUND(i); MsgLen &= 7
MTRound(st, tab) ==
    [ReadEntry(st, tab) EXCEPT
        !.hash = MULT32_HASHROUND(st.hash, Entry(tab, st.i)),
        !.pr = st.pr + 1, !.trn = st.trn + 1,
        !.MsgLen = st.MsgLen % 8,
        !.pc = "mfinal"]

\* MULT32_FINALIZE(Msg, MsgLen, i)
MFinal(st, tab) ==
    [ReadEntry(st, tab) EXCEPT
        !.hash = MULT32_FINALIZE(st.hash, LoadBytes(st.pat, st.off, st.MsgLen),
                                 st.MsgLen, Entry(tab, st.i)),
        !.rd = LoadSet(st.off, st.MsgLen),
        !.mix = LoadSet(st.off, st.MsgLen), !.nmix = st.nmix + st.MsgLen,
        !.pc = "mfold"]

\* The 64 bits of hash hashed down to 32 and returned
MFold(st, tab) ==
    LET a == KOMI32_SEEDHASH4(KomiSeed1, KomiSeed5, Lo32(st.hash))
        b == KOMI32_SEEDHASH4(a.Seed1, a.Seed5, Hi32(st.hash))
    IN  [NoRead(st) EXCEPT !.Seed1 = b.Seed1, !.Seed5 = b.Seed5,
            !.sh = st.sh + 2, !.result = b.Seed1, !.pc = "done"]

\* The step of Mult32_impl at the position st.pc
MultStep(st, tab) ==
    CASE st.pc = "mstart"  -> MStart(st, tab)
      [] st.pc = "mblk"    -> MBlk(st, tab)
      [] st.pc = "mround"  -> MRound(st, tab)
      [] st.pc = "mtail"   -> MTail(st, tab)
      [] st.pc = "mtblk"   -> MTBlk(st, tab)
      [] st.pc = "mtround" -> MTRound(st, tab)
      [] st.pc = "mfinal"  -> MFinal(st, tab)
      [] st.pc = "mfold"   -> MFold(st, tab)
      [] OTHER             -> st

RECURSIVE MultRun(_, _)
MultRun(st, tab) == IF st.pc = "done" THEN st ELSE MultRun(MultStep(st, tab), tab)

\* Mult32_impl(in, len, UseSeed) reading the table tab: the value returned
Mult32_impl(tab, pat, len, seed) ==
    MultRun(Enter("Mult32", "Mult32", pat, len, seed, "mstart"), tab).result
(***************************************************************************)
(* The public entry points.                                                *)
(***************************************************************************)
InitNeededNever(done) == FALSE

\* the test oneTimeDone == 0 of Mult32
InitNeeded(done) == done = 0

Mult32_entry_noflag(tab, done) ==
    IF InitNeeded(done)
    THEN [tab |-> Mult32_init(tab), done |-> done, runs |-> 1]
    ELSE [tab |-> tab, done |-> done, runs |-> 0]

\* Mult32(in, len, seed) up to the call of Mult32_impl: the table and the
\* flag after the one-time initialisation, and the number of runs of
\* Mult32_init
Mult32_entry(tab, done) ==
    IF InitNeeded(done)
    THEN [tab |-> Mult32_init(tab), done |-> 1, runs |-> 1]
    ELSE [tab |-> tab, done |-> done, runs |-> 0]

\* Mult32(in, len, seed) called with the statics tab and done: the value
\* returned
Mult32(tab, done, pat, len, seed) ==
    Mult32_impl(Mult32_entry(tab, done).tab, pat, len, seed)

ComboShortInclusive(len) == len <= 64

\* the test len < 64 of Combo32
ComboShort(len) == len < 64

\* Combo32(in, len, seed): the hasher entered
Combo32_enter(pat, len, seed) ==
    IF ComboShort(len)
    THEN Enter("Combo32", "Komi32", pat, len, seed, "kseed")
    ELSE Enter("Combo32", "Mult32", pat, len, seed, "mstart")

(***************************************************************************)
(* State.  mult32_random and oneTimeDone are the two static objects of     *)
(* mult32.h.  initRuns counts the runs of Mult32_init and wcount[i + 1]    *)
(* the writes of entry i.  loc is the local state of the call in progress  *)
(* of the sequential program; th[t] is the local state of thread t of the  *)
(* concurrent program.                                                     *)
(***************************************************************************)
VARIABLES mult32_random, oneTimeDone, initRuns, wcount, loc, th

vars == <<mult32_random, oneTimeDone, initRuns, wcount, loc, th>>

Threads == {"t1", "t2"}

statics == <<mult32_random, oneTimeDone, initRuns, wcount>>

(***************************************************************************)
(* The sequential program: any sequence of calls of Komi32, Mult32 and     *)
(* Combo32, each run to completion before the next one starts.             *)
(***************************************************************************)
Init ==
    /\ mult32_random = ZeroTable
    /\ oneTimeDone = 0
    /\ initRuns = 0
    /\ wcount = Repeat(0, RANDOM_LENGTH)
    /\ loc = Idle
    /\ th = [t \in Threads |-> Idle]

CallKomi32 ==
    /\ loc.pc = "idle"
    /\ \E pat \in Patterns, len \in Lengths, seed \in Seeds :
           loc' = Enter("Komi32", "Komi32", pat, len, seed, "kseed")
    /\ UNCHANGED <<statics, th>>

\* the statics after the head of Mult32 (the one-time initialisation) gave r
Mult32Head(r) ==
    /\ mult32_random' = r.tab
    /\ oneTimeDone' = r.done
    /\ initRuns' = initRuns + r.runs
    /\ wcount' = [k \in 1..RANDOM_LENGTH |-> wcount[k] + r.runs]

\* Mult32 up to the first step of Mult32_impl
CallMult32 ==
    /\ loc.pc = "idle"
    /\ \E r \in {Mult32_entry(mult32_random, oneTimeDone)} :
        /\ Mult32Head(r)
        /\ \E pat \in Patterns, len \in Lengths, seed \in Seeds :
               loc' = [Enter("Mult32", "Mult32", pat, len, seed, "mstart")
                          EXCEPT !.init = r.runs]
    /\ UNCHANGED th

\* Combo32 up to the first step of the hasher it calls
CallCombo32 ==
    /\ loc.pc = "idle"
    /\ \E len \in Lengths :
        IF ComboShort(len)
        THEN /\ UNCHANGED statics
             /\ \E pat \in Patterns, seed \in Seeds :
                    loc' = Combo32_enter(pat, len, seed)
        ELSE \E r \in {Mult32_entry(mult32_random, oneTimeDone)} :
                /\ Mult32Head(r)
                /\ \E pat \in Patterns, seed \in Seeds :
                       loc' = [Combo32_enter(pat, len, seed) EXCEPT !.init = r.runs]
    /\ UNCHANGED th

KSeedStep ==
    /\ loc.pc = "kseed"
    /\ loc' = KSeed(loc)
    /\ UNCHANGED <<statics, th>>

KEmptyStep ==
    /\ loc.pc = "kempty"
    /\ loc' = KEmpty(loc)
    /\ UNCHANGED <<statics, th>>

KLanesStep ==
    /\ loc.pc = "klanes"
    /\ loc' = KLanes(loc)
    /\ UNCHANGED <<statics, th>>

KBulkStep ==
    /\ loc.pc = "kbulk"
    /\ loc' = KBulk(loc)
    /\ UNCHANGED <<statics, th>>

KFoldStep ==
    /\ loc.pc = "kfold"
    /\ loc' = KFold(loc)
    /\ UNCHANGED <<statics, th>>

KTailStep ==
    /\ loc.pc = "ktail"
    /\ loc' = KTail(loc)
    /\ UNCHANGED <<statics, th>>

KTBlkStep ==
    /\ loc.pc = "ktblk"
    /\ loc' = KTBlk(loc)
    /\ UNCHANGED <<statics, th>>

KFinalStep ==
    /\ loc.pc = "kfinal"
    /\ loc' = KFinal(loc)
    /\ UNCHANGED <<statics, th>>

MStartStep ==
    /\ loc.pc = "mstart"
    /\ loc' = MStart(loc, mult32_random)
    /\ UNCHANGED <<statics, th>>

MBlkStep ==
    /\ loc.pc = "mblk"
    /\ loc' = MBlk(loc, mult32_random)
    /\ UNCHANGED <<statics, th>>

MRoundStep ==
    /\ loc.pc = "mround"
    /\ loc' = MRound(loc, mult32_random)
    /\ UNCHANGED <<statics, th>>

MTailStep ==
    /\ loc.pc = "mtail"
    /\ loc' = MTail(loc, mult32_random)
    /\ UNCHANGED <<statics, th>>

MTBlkStep ==
    /\ loc.pc = "mtblk"
    /\ loc' = MTBlk(loc, mult32_random)
    /\ UNCHANGED <<statics, th>>

MTRoundStep ==
    /\ loc.pc = "mtround"
    /\ loc' = MTRound(loc, mult32_random)
    /\ UNCHANGED <<statics, th>>

MFinalStep ==
    /\ loc.pc = "mfinal"
    /\ loc' = MFinal(loc, mult32_random)
    /\ UNCHANGED <<statics, th>>

MFoldStep ==
    /\ loc.pc = "mfold"
    /\ loc' = MFold(loc, mult32_random)
    /\ UNCHANGED <<statics, th>>

\* the call returns loc.result
Return ==
    /\ loc.pc = "done"
    /\ loc' = Idle
    /\ UNCHANGED <<statics, th>>

Next ==
    \/ CallKomi32 \/ CallMult32 \/ CallCombo32
    \/ KSeedStep \/ KEmptyStep \/ KLanesStep \/ KBulkStep \/ KFoldStep
    \/ KTailStep \/ KTBlkStep \/ KFinalStep
    \/ MStartStep \/ MBlkStep \/ MRoundStep \/ MTailStep \/ MTBlkStep
    \/ MTRoundStep \/ MFinalStep \/ MFoldStep
    \/ Return

Spec == Init /\ [][Next]_vars

(***************************************************************************)
(* The concurrent program: the threads call Mult32 at the same time.  A    *)
(* step of a thread is one read or one write of oneTimeDone or of an entry *)
(* of mult32_random, together with the thread's local computation up to    *)
(* its next access; the accesses are sequentially consistent.              *)
(***************************************************************************)
ConcLengths == {ConcLen}

ConcPattern == "ramp"

ConcSeed == Zero64

InitConc == Init

InitContinuesShort(j) == j < RANDOM_POWER

\* the test i < RANDOM_LENGTH of the loop of Mult32_init
InitContinues(j) == j < RANDOM_LENGTH

\* thread t calls Mult32
TCall(t) ==
    /\ th[t].pc = "idle"
    /\ \E len \in ConcLengths :
           th' = [th EXCEPT ![t] = Enter("Mult32", "Mult32", ConcPattern, len,
                                         ConcSeed, "mcheck")]
    /\ UNCHANGED <<statics, loc>>

\* thread t reads oneTimeDone; when it reads 0 it enters Mult32_init, whose
\* generator state is a local variable
TCheck(t) ==
    /\ th[t].pc = "mcheck"
    /\ IF InitNeeded(oneTimeDone)
       THEN /\ th' = [th EXCEPT ![t].pc = "minit", ![t].j = 0, ![t].init = 1,
                                ![t].gen = Xorshift128p_init(InitSeed)]
            /\ initRuns' = initRuns + 1
       ELSE /\ th' = [th EXCEPT ![t].pc = "mstart"]
            /\ UNCHANGED initRuns
    /\ UNCHANGED <<mult32_random, oneTimeDone, wcount, loc>>

\* thread t writes entry j of the table, one iteration of the loop of
\* Mult32_init
TInit(t) ==
    /\ th[t].pc = "minit"
    /\ \E r \in {InitStep(mult32_random, th[t].gen, th[t].j)} :
        /\ mult32_random' = r.tab
        /\ th' = [th EXCEPT ![t].gen = r.state,
                            ![t].j = th[t].j + 1,
                            ![t].late = th[t].late \/ oneTimeDone = 1,
                            ![t].pc = IF InitContinues(th[t].j + 1)
                                      THEN "minit" ELSE "mset"]
    /\ wcount' = [wcount EXCEPT ![th[t].j + 1] = wcount[th[t].j + 1] + 1]
    /\ UNCHANGED <<oneTimeDone, initRuns, loc>>

\* thread t writes oneTimeDone = 1 and enters Mult32_impl
TSet(t) ==
    /\ th[t].pc = "mset"
    /\ oneTimeDone' = 1
    /\ th' = [th EXCEPT ![t].pc = "mstart"]
    /\ UNCHANGED <<mult32_random, initRuns, wcount, loc>>

ImplPcs == {"mstart", "mblk", "mround", "mtail", "mtblk", "mtround", "mfinal", "mfold"}

\* thread t makes a step of Mult32_impl
TImpl(t) ==
    /\ th[t].pc \in ImplPcs
    /\ th' = [th EXCEPT ![t] = MultStep(th[t], mult32_random)]
    /\ UNCHANGED <<statics, loc>>

\* the call of thread t returns th[t].result
TReturn(t) ==
    /\ th[t].pc = "done"
    /\ th' = [th EXCEPT ![t] = Idle]
    /\ UNCHANGED <<statics, loc>>

NextConc ==
    \E t \in Threads :
        \/ TCall(t) \/ TCheck(t) \/ TInit(t) \/ TSet(t) \/ TImpl(t) \/ TReturn(t)

SpecConc == InitConc /\ [][NextConc]_vars

(***************************************************************************)
(* Properties of the concurrent program.                                   *)
(***************************************************************************)

\* C2: under any interleaving of concurrent calls of Mult32 that reach first
\* use together, Mult32_init is executed exactly once in total, so that
\* every entry of mult32_random is written exactly once.
C2_InitExactlyOnce ==
    /\ initRuns <= 1
    /\ \A k \in 1..RANDOM_LENGTH : wcount[k] <= 1

\* C3: every entry of the table read inside Mult32_impl holds, when it is
\* read, the final value the generator assigns to its index, and has been
\* written: no call reads an entry that is still unpopulated.
C3_ReadsSeeFinalValues ==
    \A t \in Threads :
        \A i \in th[t].tix :
            /\ th[t].tval = Entry(FinalTable, i)
            /\ wcount[i + 1] >= 1

\* a thread has read an entry of the table inside Mult32_impl while another
\* thread is still running Mult32_init
C3_Witness ==
    \E t \in Threads, u \in Threads :
        /\ th[t].tix # {}
        /\ th[u].pc = "minit"

\* C4: once oneTimeDone is 1, no step changes any entry of mult32_random,
\* the steps of a racing call that is still running Mult32_init included.
C4_TableFrozenAfterFlag ==
    [][oneTimeDone = 1 => mult32_random' = mult32_random]_vars

\* a racing call has written an entry of the table after oneTimeDone was set
C4_Witness ==
    /\ oneTimeDone = 1
    /\ \E t \in Threads : th[t].late /\ th[t].pc = "minit"

\* the word 1 a step of the generator stores, from the state before the
\* step: the shift-left-23 / shift-right-18 self-XOR of word 0, combined
\* with word 1 and word 1 >> 5
NextWord1(w0, w1) ==
    LET a == Xor(w0, Shl(w0, 23))
    IN  Xor(Xor(a, Shr(a, 18)), Xor(w1, Shr(w1, 5)))

\* thread t makes one step of the generator and writes its output
GenStep(t) == th[t].pc = "minit" /\ th'[t].j = th[t].j + 1

\* C11 as stated: each step of the generator outputs the sum modulo 2^64 of
\* the two state words as they were before the step, stores old word 1 as
\* word 0 and the shift/XOR combination as word 1.
C11_OutputIsSumBeforeStep ==
    [][\A t \in Threads : GenStep(t) =>
          /\ Entry(mult32_random', th[t].j) = Add(th[t].gen[1], th[t].gen[2])
          /\ th'[t].gen[1] = th[t].gen[2]
          /\ th'[t].gen[2] = NextWord1(th[t].gen[1], th[t].gen[2])]_vars

\* C11: each step of the generator stores old word 1 as word 0 and the
\* shift/XOR combination of the old words as word 1, and outputs the sum
\* modulo 2^64 of the NEW word 1 and the old word 1.
C11_OutputIsSumWithNewWord ==
    [][\A t \in Threads : GenStep(t) =>
          /\ Entry(mult32_random', th[t].j) =
                 Add(NextWord1(th[t].gen[1], th[t].gen[2]), th[t].gen[2])
          /\ th'[t].gen[1] = th[t].gen[2]
          /\ th'[t].gen[2] = NextWord1(th[t].gen[1], th[t].gen[2])]_vars

\* a thread has made every step of the generator of one run of Mult32_init
C11_Witness ==
    \E t \in Threads :
        /\ th[t].pc = "mset"
        /\ th[t].j = RANDOM_LENGTH
        /\ mult32_random = FinalTable

(***************************************************************************)
(* The finalisations on their own: the switch of KOMI32_FINALIZE and       *)
(* final_bytes of mult32.h are applied to a tail of 0..7 bytes drawn from  *)
(* TailBytes; prev is the byte before the tail, the pad byte of            *)
(* KOMI32_FINALIZE for an empty tail.                                      *)
(***************************************************************************)
TailBytes == {0, 1, 2, 128}

\* the sequences of n bytes of TailBytes
RECURSIVE TailsOfLen(_)
TailsOfLen(n) ==
    IF n = 0 THEN {<<>>}
    ELSE {Append(t, b) : t \in TailsOfLen(n - 1), b \in TailBytes}

Tails == UNION {TailsOfLen(n) : n \in 0..7}

\* Msg[MsgLen - 1] for the tail at Msg, prev being the byte before it
LastByte(tail, prev) == IF Len(tail) = 0 THEN prev ELSE tail[Len(tail)]

InitTails ==
    /\ mult32_random = ZeroTable
    /\ oneTimeDone = 0
    /\ initRuns = 0
    /\ wcount = Repeat(0, RANDOM_LENGTH)
    /\ th = [t \in Threads |-> Idle]
    /\ \E tail \in Tails :
        \E prev \in (IF Len(tail) = 0 THEN TailBytes ELSE {tail[Len(tail)]}) :
            loc = [pc |-> "tail", tail |-> tail, prev |-> prev,
                   words |-> <<Zero32, Zero32>>, m |-> Zero64]

\* the switch of KOMI32_FINALIZE on the tail
FinalizeTail ==
    /\ loc.pc = "tail"
    /\ loc' = [loc EXCEPT !.pc = "words",
                  !.words = KomiFinalWords(loc.tail,
                                           PadWord(LastByte(loc.tail, loc.prev)))]
    /\ UNCHANGED <<statics, th>>

\* final_bytes(Msg, MsgLen) on the tail
FinalBytesTail ==
    /\ loc.pc = "tail"
    /\ loc' = [loc EXCEPT !.pc = "m64", !.m = final_bytes(loc.tail, Len(loc.tail))]
    /\ UNCHANGED <<statics, th>>

NextTails == FinalizeTail \/ FinalBytesTail

SpecTails == InitTails /\ [][NextTails]_vars

\* the index of the most significant non-zero byte of the word w, 0 when w
\* is 0
RECURSIVE TopByte(_, _)
TopByte(w, k) == IF k = 0 THEN 0 ELSE IF w[k] # 0 THEN k ELSE TopByte(w, k - 1)

\* the tail read back from the pair of words of the finalisation
DecodeTail(w) ==
    IF w[2] # Zero32
    THEN w[1] \o SubSeq(w[2], 1, TopByte(w[2], 4) - 1)
    ELSE SubSeq(w[1], 1, TopByte(w[1], 4) - 1)

\* the tail without its last k bytes
DropLast(tail, k) == SubSeq(tail, 1, Len(tail) - k)

\* the last k bytes of the tail are zero
EndsInZeros(tail, k) == \A i \in (Len(tail) - k + 1)..Len(tail) : tail[i] = 0

\* C13: the pair of words the finalisation of Komi32_impl XORs into
\* (Seed1, Seed5) determines the remaining tail: the tail, its length
\* included, can be read back from the pair, so that two tails differing in
\* length or in content never give the same pair; in particular a tail that
\* ends in zero bytes and the same tail without them give different pairs.
C13_FinalWordsDetermineTail ==
    loc.pc = "words" =>
        /\ DecodeTail(loc.words) = loc.tail
        /\ \A k \in 1..Len(loc.tail) :
              EndsInZeros(loc.tail, k) =>
                  \A prev \in TailBytes :
                      KomiFinalWords(DropLast(loc.tail, k),
                                     PadWord(LastByte(DropLast(loc.tail, k), prev)))
                          # loc.words

\* the finalisation was applied to a tail of 5 bytes that ends in two zero
\* bytes after a non-zero byte
C13_Witness ==
    /\ loc.pc = "words"
    /\ Len(loc.tail) = 5
    /\ loc.tail[3] # 0
    /\ loc.tail[4] = 0
    /\ loc.tail[5] = 0

\* C14: for every tail of 1..7 bytes that ends in one or more zero bytes,
\* final_bytes returns a 64-bit value different from the one it returns for
\* the shorter tail without those zero bytes; the bytes of the pattern, which
\* the tail does not overwrite, are all non-zero.
C14_TrailingZerosChangeFinalBytes ==
    /\ \A i \in 1..8 : PadPattern[i] # 0
    /\ loc.pc = "m64" =>
          \A k \in 1..Len(loc.tail) :
              EndsInZeros(loc.tail, k) =>
                  final_bytes(DropLast(loc.tail, k), Len(loc.tail) - k) # loc.m

\* final_bytes was applied to a tail of 7 bytes that ends in two zero bytes
\* after a non-zero byte
C14_Witness ==
    /\ loc.pc = "m64"
    /\ Len(loc.tail) = 7
    /\ loc.tail[5] # 0
    /\ loc.tail[6] = 0
    /\ loc.tail[7] = 0

(***************************************************************************)
(* The bulk loop of Komi32_impl on its own: runs of the loop on the same   *)
(* message, base and pert[d] for every d of Deltas, whose lanes            *)
(* Seed1..Seed8 are equal at the start except lane a, which is XORed with  *)
(* d in pert[d].                                                           *)
(***************************************************************************)
Lanes == 1..8

Deltas == {<<1, 0, 0, 0>>, <<0, 0, 0, 128>>, <<0, 0, 1, 0>>, <<255, 255, 255, 255>>}

\* lane i of the local state st
Lane(st, i) ==
    CASE i = 1 -> st.Seed1 [] i = 2 -> st.Seed2 [] i = 3 -> st.Seed3
      [] i = 4 -> st.Seed4 [] i = 5 -> st.Seed5 [] i = 6 -> st.Seed6
      [] i = 7 -> st.Seed7 [] i = 8 -> st.Seed8

\* the local state st with lane i XORed with d
XorLane(st, i, d) ==
    CASE i = 1 -> [st EXCEPT !.Seed1 = Xor(st.Seed1, d)]
      [] i = 2 -> [st EXCEPT !.Seed2 = Xor(st.Seed2, d)]
      [] i = 3 -> [st EXCEPT !.Seed3 = Xor(st.Seed3, d)]
      [] i = 4 -> [st EXCEPT !.Seed4 = Xor(st.Seed4, d)]
      [] i = 5 -> [st EXCEPT !.Seed5 = Xor(st.Seed5, d)]
      [] i = 6 -> [st EXCEPT !.Seed6 = Xor(st.Seed6, d)]
      [] i = 7 -> [st EXCEPT !.Seed7 = Xor(st.Seed7, d)]
      [] i = 8 -> [st EXCEPT !.Seed8 = Xor(st.Seed8, d)]

\* Komi32_impl at the entry of its bulk loop, for a message of MaxBlocks
\* blocks of 32 bytes
AtBulkLoop(pat, seed) ==
    KLanes(KSeed(Enter("Komi32", "Komi32", pat, 32 * MaxBlocks, seed, "kseed")))

InitLanes ==
    /\ mult32_random = ZeroTable
    /\ oneTimeDone = 0
    /\ initRuns = 0
    /\ wcount = Repeat(0, RANDOM_LENGTH)
    /\ th = [t \in Threads |-> Idle]
    /\ \E pat \in Patterns, seed \in Seeds, a \in Lanes :
          loc = [pc |-> "lanes", a |-> a, k |-> 0,
                 base |-> AtBulkLoop(pat, seed),
                 pert |-> [d \in Deltas |-> XorLane(AtBulkLoop(pat, seed), a, d)]]

\* one iteration of the bulk loop in every run
BulkBlock ==
    /\ loc.pc = "lanes"
    /\ loc.k < MaxBlocks
    /\ loc' = [loc EXCEPT !.k = loc.k + 1,
                          !.base = KBulk(loc.base),
                          !.pert = [d \in Deltas |-> KBulk(loc.pert[d])]]
    /\ UNCHANGED <<statics, th>>

NextLanes == BulkBlock

SpecLanes == InitLanes /\ [][NextLanes]_vars

\* the lanes whose value after one iteration of the bulk loop is computed
\* from the value of lane a before it: Seed5 and Seed2 from Seed1 and Seed5,
\* Seed6 and Seed3 from Seed2 and Seed6, Seed7 and Seed4 from Seed3 and
\* Seed7, Seed8 and Seed1 from Seed4 and Seed8, Seed1 also from Seed1 and
\* Seed5, Seed2 from Seed2 and Seed6, Seed3 from Seed3 and Seed7, Seed4 from
\* Seed4 and Seed8
Feeds(a) ==
    CASE a \in {1, 5} -> {1, 2, 5}
      [] a \in {2, 6} -> {2, 3, 6}
      [] a \in {3, 7} -> {3, 4, 7}
      [] a \in {4, 8} -> {4, 8, 1}

\* the lanes reached from lane a by k iterations
RECURSIVE Reach(_, _)
Reach(a, k) ==
    IF k = 0 THEN {a} ELSE UNION {Feeds(b) : b \in Reach(a, k - 1)}

\* the lanes whose value in some run pert[d] differs from the value in base
DiffLanes ==
    {b \in Lanes : \E d \in Deltas : Lane(loc.base, b) # Lane(loc.pert[d], b)}

\* C17: the data dependencies of one 32-byte block over the lanes
\* Seed1..Seed8 are strongly connected: for every ordered pair of lanes
\* (a, b), the value of b after 4 consecutive blocks (and after any smaller
\* number of blocks that already reaches b) depends on the value of a before
\* them: changes of lane a alone change, after k blocks, exactly the lanes
\* reached from a in k steps, and 4 steps reach every lane.
C17_LanesStronglyConnected ==
    /\ \A a \in Lanes : Reach(a, 4) = Lanes
    /\ loc.pc = "lanes" =>
          /\ DiffLanes = Reach(loc.a, loc.k)
          /\ loc.k >= 4 => DiffLanes = Lanes

\* after 4 blocks a change of lane 1 alone has changed lane 8, the lane
\* farthest from it, and every other lane
C17_Witness ==
    /\ loc.pc = "lanes"
    /\ loc.a = 1
    /\ loc.k = 4
    /\ \E d \in Deltas : Lane(loc.base, 8) # Lane(loc.pert[d], 8)
    /\ DiffLanes = Lanes

(***************************************************************************)
(* The builds of mult32.h.  A build is the byte order of the host (which   *)
(* the configuration of LITTLE_ENDIAN / BIG_ENDIAN reports) and whether    *)
(* NO_SWAP is defined.  A uint64_t value is its bytes from the least       *)
(* significant one; the memory of a little-endian host holds them in this  *)
(* order and the memory of a big-endian host in the opposite order.        *)
(* SpecBuilds runs Mult32_impl on the same message in the default build    *)
(* and in one other build, step by step.                                   *)
(***************************************************************************)
MaxBuildLen == 71

BuildLengths == 0..MaxBuildLen

Builds == [host : {"LE", "BE"}, NO_SWAP : BOOLEAN]

\* a little-endian host with NO_SWAP defined, the default build
LittleNoSwap == [host |-> "LE", NO_SWAP |-> TRUE]

\* a big-endian host with NO_SWAP commented out
BigSwap == [host |-> "BE", NO_SWAP |-> FALSE]

\* BSWAP64(x)
BSWAP64(x) == <<x[8], x[7], x[6], x[5], x[4], x[3], x[2], x[1]>>

\* the 8 bytes of memory holding the uint64_t value val on the host
StoreNative(host, val) == IF host = "LE" THEN val ELSE BSWAP64(val)

\* the uint64_t value the host reads from 8 bytes of memory
LoadNative(host, mem) == IF host = "LE" THEN mem ELSE BSWAP64(mem)

\* 0xEDBCADDCEDBCADDC, the initial value of m in a big-endian build
PadPatternSwapped == <<220, 173, 188, 237, 220, 173, 188, 237>>

\* final_bytes(Msg, MsgLen) in build b: m initialised, the MsgLen bytes
\* copied over the first bytes of its memory, and the value returned
final_bytes_in(b, bytes, MsgLen) ==
    LET m0  == IF b.host = "LE" THEN PadPattern ELSE PadPatternSwapped
        mem == bytes \o SubSeq(StoreNative(b.host, m0), MsgLen + 1, 8)
        m   == LoadNative(b.host, mem)
    IN  IF b.host = "LE"
        THEN (IF b.NO_SWAP THEN m ELSE BSWAP64(m))
        ELSE (IF b.NO_SWAP THEN BSWAP64(m) ELSE m)

\* the value MULT32_HASH8 of build b xors with the table entry: memcpy of
\* the 8 bytes into val, byte-swapped unless NO_SWAP is defined
BlockValue(b, bytes) ==
    LET val == LoadNative(b.host, bytes)
    IN  IF b.NO_SWAP THEN val ELSE BSWAP64(val)

\* the 64-bit value the step at st.pc decodes from the message in build b
DecodedIn(b, st) ==
    CASE st.pc \in {"mblk", "mtblk"} -> BlockValue(b, LoadBytes(st.pat, st.off, 8))
      [] st.pc = "mfinal" ->
            final_bytes_in(b, LoadBytes(st.pat, st.off, st.MsgLen), st.MsgLen)
      [] OTHER -> Zero64

\* The step of Mult32_impl at the position st.pc in build b
MultStepIn(b, st, tab) ==
    IF st.pc \in {"mblk", "mtblk"}
    THEN [MultStep(st, tab) EXCEPT
            !.hash = MULT32_HASH8(st.hash, DecodedIn(b, st), Entry(tab, st.i))]
    ELSE IF st.pc = "mfinal"
    THEN [MultStep(st, tab) EXCEPT
            !.hash = MULT32_VALHASH8(st.hash, DecodedIn(b, st), Entry(tab, st.i))]
    ELSE MultStep(st, tab)

\* what the last step decoded: nothing, an 8-byte block or the final block
DecodeKind(st) ==
    CASE st.pc \in {"mblk", "mtblk"} -> "block"
      [] st.pc = "mfinal"            -> "final"
      [] OTHER                       -> "none"

InitBuilds ==
    /\ mult32_random = FinalTable
    /\ oneTimeDone = 1
    /\ initRuns = 1
    /\ wcount = Repeat(1, RANDOM_LENGTH)
    /\ th = [t \in Threads |-> Idle]
    /\ \E b \in Builds, pat \in Patterns, len \in BuildLengths, seed \in Seeds :
          loc = [pc |-> "builds", b |-> b, dec |-> "none",
                 ref |-> Enter("Mult32", "Mult32", pat, len, seed, "mstart"),
                 alt |-> Enter("Mult32", "Mult32", pat, len, seed, "mstart"),
                 vref |-> Zero64, valt |-> Zero64]

\* one step of Mult32_impl in the default build and in build loc.b
StepBuilds ==
    /\ loc.pc = "builds"
    /\ loc.ref.pc # "done"
    /\ loc' = [loc EXCEPT
                 !.dec  = DecodeKind(loc.ref),
                 !.vref = DecodedIn(LittleNoSwap, loc.ref),
                 !.valt = DecodedIn(loc.b, loc.alt),
                 !.ref  = MultStepIn(LittleNoSwap, loc.ref, mult32_random),
                 !.alt  = MultStepIn(loc.b, loc.alt, mult32_random)]
    /\ UNCHANGED <<statics, th>>

NextBuilds == StepBuilds

SpecBuilds == InitBuilds /\ [][NextBuilds]_vars

\* C18: for the same input bytes the build for a little-endian host with
\* NO_SWAP and the build for a big-endian host without NO_SWAP decode every
\* 8-byte block and the final 0..7-byte padded block to the same 64-bit
\* value, and return the same 32-bit output.
C18_BuildsAgree ==
    (loc.pc = "builds" /\ loc.b = BigSwap) =>
        /\ loc.dec \in {"block", "final"} => loc.valt = loc.vref
        /\ loc.alt.pc = loc.ref.pc
        /\ loc.ref.pc = "done" => loc.alt.result = loc.ref.result

\* the part of C18 that the code does satisfy: the two builds decode every
\* 8-byte block to the same value, and the default build of SpecBuilds is
\* the program of Spec
BuildsAgreeOnBlocks ==
    loc.pc = "builds" =>
        /\ (loc.b = BigSwap /\ loc.dec = "block") => loc.valt = loc.vref
        /\ loc.b = LittleNoSwap => loc.alt = loc.ref
        /\ loc.ref.pc = "done" =>
              loc.ref.result = Mult32_impl(mult32_random, loc.ref.pat,
                                           loc.ref.len, loc.ref.seed)

\* the two builds of C18 decode the final block of a 3-byte tail to values
\* that are the byte reversal of each other
FinalBlocksReversed ==
    /\ loc.pc = "builds"
    /\ loc.b = BigSwap
    /\ loc.dec = "final"
    /\ loc.ref.len % 8 = 3
    /\ loc.valt = BSWAP64(loc.vref)
    /\ loc.valt # loc.vref

\* the two builds of C18 return different 32-bit values for the same bytes
OutputsDiffer ==
    /\ loc.pc = "builds"
    /\ loc.b = BigSwap
    /\ loc.ref.pc = "done"
    /\ loc.alt.result # loc.ref.result

(***************************************************************************)
(* Properties of the sequential program.                                   *)
(***************************************************************************)

\* C1: a finished call Combo32(s, len, k) returns the value of
\* Komi32(s, len, k) when len < 64 and the value Mult32(s, len, k) returns
\* when len >= 64; lengths 63 and 64 lie on the two sides of the boundary.
C1_DispatchEquivalence ==
    (loc.pc = "done" /\ loc.via = "Combo32") =>
        IF loc.len < 64
        THEN /\ loc.fn = "Komi32"
             /\ loc.result = Komi32(loc.pat, loc.len, loc.seed)
        ELSE /\ loc.fn = "Mult32"
             /\ loc.result = Mult32(mult32_random, oneTimeDone,
                                    loc.pat, loc.len, loc.seed)

\* a call of Combo32 with len = 64, the first length served by Mult32, has
\* returned
C1_Witness ==
    /\ loc.pc = "done"
    /\ loc.via = "Combo32"
    /\ loc.len = 64
    /\ loc.fn = "Mult32"

\* the value of a call as a function of the entry point and of the call's
\* own arguments, the table being the one Mult32_init computes
ValueOf(via, pat, len, seed) ==
    CASE via = "Komi32" -> Komi32(pat, len, seed)
      [] via = "Mult32" -> Mult32_impl(FinalTable, pat, len, seed)
      [] via = "Combo32" ->
            IF len < 64 THEN Komi32(pat, len, seed)
            ELSE Mult32_impl(FinalTable, pat, len, seed)

\* C5: in any sequence of calls of one thread, the value a call returns is a
\* function of the entry point and of the call's own (bytes, length, seed):
\* it does not depend on the calls made before, nor on whether the table was
\* already initialised when the call started.
C5_ValueDependsOnArgsOnly ==
    loc.pc = "done" => loc.result = ValueOf(loc.via, loc.pat, loc.len, loc.seed)

\* a call of Mult32 that found the table initialised by an earlier call has
\* returned
C5_Witness ==
    /\ loc.pc = "done"
    /\ loc.via = "Mult32"
    /\ loc.init = 0
    /\ initRuns = 1

\* C6: a call of Combo32 with len < 64 leaves mult32_random and oneTimeDone
\* unchanged; a call of Combo32 with len >= 64 leaves the table populated
\* and the flag set, running Mult32_init exactly when the flag was 0; and
\* Mult32_init is never run a second time.
C6_ShortCallsLeaveStatics ==
    /\ [][(loc'.via = "Combo32" /\ loc'.len < 64) =>
              UNCHANGED <<mult32_random, oneTimeDone, initRuns>>]_vars
    /\ [][(loc.pc = "idle" /\ loc'.via = "Combo32" /\ loc'.len >= 64) =>
              /\ mult32_random' = FinalTable
              /\ oneTimeDone' = 1
              /\ initRuns' = initRuns + (IF oneTimeDone = 0 THEN 1 ELSE 0)
              /\ loc'.init = initRuns' - initRuns]_vars
    /\ [][initRuns' # initRuns =>
              /\ oneTimeDone = 0
              /\ initRuns = 0
              /\ loc'.via = "Combo32" => loc'.len >= 64]_vars
    /\ [](initRuns <= 1)

\* a call of Combo32 with len >= 64 has returned without running
\* Mult32_init, the table having been populated by an earlier call
C6_Witness ==
    /\ loc.pc = "done"
    /\ loc.via = "Combo32"
    /\ loc.len >= 64
    /\ loc.init = 0
    /\ mult32_random = FinalTable

\* C7: every byte Komi32_impl and Mult32_impl read from the input of length
\* n is at an offset in [0, n), the pad byte of the finalisation included.
C7_ReadsInBounds ==
    /\ loc.rd \subseteq 0..(loc.len - 1)
    /\ loc.padoff # -1 => loc.padoff \in 0..(loc.len - 1)

\* the finalisation of a call of Komi32 with no byte left has read its pad
\* byte, the last byte of the input
C7_Witness ==
    /\ loc.fn = "Komi32"
    /\ loc.pc = "done"
    /\ loc.len > 0
    /\ loc.MsgLen = 0
    /\ loc.padoff = loc.len - 1
    /\ loc.rd = {loc.len - 1}

\* C8: every index used to read mult32_random is in [0, 137), and the index
\* is in [0, 128) at the start of every iteration of the bulk loop after the
\* first.
C8_TableIndexInRange ==
    /\ loc.tix \subseteq 0..(RANDOM_LENGTH - 1)
    /\ (loc.fn = "Mult32" /\ loc.pc = "mblk" /\ loc.cnt = 8 /\ loc.off > 0) =>
           loc.i \in 0..(RANDOM_POWER - 1)

\* an iteration of the bulk loop after the first starts with the index
\* wrapped around, the iteration before having read entries past 127
C8_Witness ==
    /\ loc.fn = "Mult32"
    /\ loc.pc = "mblk"
    /\ loc.cnt = 8
    /\ loc.off > 0
    /\ loc.i < RANDOM_EXTRA
    /\ loc.tix = {loc.i + RANDOM_POWER - 1}

\* C9: Komi32 on an empty input reads no byte of the input and returns
\* Seed1 after the two seed-hash rounds and exactly two parameterless rounds.
C9_EmptyInput ==
    (loc.fn = "Komi32" /\ loc.len = 0 /\ loc.pc # "idle") =>
        /\ loc.rd = {}
        /\ loc.padoff = -1
        /\ loc.pc = "done" =>
              /\ loc.sh = 2
              /\ loc.pr = 2
              /\ LET a == KOMI32_SEEDHASH4_komi(KomiSeed1, KomiSeed5, Lo32(loc.seed))
                     b == KOMI32_SEEDHASH4_komi(a.Seed1, a.Seed5, Hi32(loc.seed))
                     c == KOMI32_HASHROUND(b.Seed1, b.Seed5)
                     d == KOMI32_HASHROUND(c.Seed1, c.Seed5)
                 IN  loc.result = d.Seed1

\* a call of Komi32 with an empty input and a non-zero seed has returned
C9_Witness ==
    /\ loc.fn = "Komi32"
    /\ loc.len = 0
    /\ loc.pc = "done"
    /\ loc.seed # Zero64

\* C12: for every n >= 1 the byte from which Komi32_impl derives the pad
\* word 1 << (byte >> 7) is byte n - 1 of the message, whatever number of
\* bulk and tail blocks were consumed: consumed offset + remaining length = n
\* holds at the finalisation, also when the remaining length is 0.
C12_PadByteIsLastByte ==
    /\ (loc.fn = "Komi32" /\ loc.pc = "kfinal") =>
           /\ loc.len >= 1
           /\ loc.off + loc.MsgLen = loc.len
           /\ loc.MsgLen \in 0..7
    /\ (loc.fn = "Komi32" /\ loc.pc = "done" /\ loc.len >= 1) =>
           /\ loc.off + loc.MsgLen = loc.len
           /\ loc.padoff = loc.len - 1
           /\ loc.fb = ToWord(Pow2(MsgByte(loc.pat, loc.len - 1) \div 128), 4)

\* a call of Komi32 has consumed a bulk block and three tail blocks, no byte
\* remains, and the pad word 2 was derived from the last byte, whose top bit
\* is set
C12_Witness ==
    /\ loc.fn = "Komi32"
    /\ loc.pc = "done"
    /\ loc.len > 32
    /\ loc.tb = 3
    /\ loc.MsgLen = 0
    /\ loc.off = loc.len
    /\ loc.fb = <<2, 0, 0, 0>>

\* C15: in both hashers, for every length n, each byte offset in [0, n) is
\* mixed in by exactly one step (bulk block, tail block or finalisation), the
\* steps taking the offsets in increasing order: the bytes a step mixes in
\* are exactly the next ones after all the bytes mixed in before it, and n
\* bytes have been mixed in when the call returns.
C15_EachByteMixedOnce ==
    loc.pc # "idle" =>
        /\ loc.mix = (loc.nmix - Cardinality(loc.mix))..(loc.nmix - 1)
        /\ loc.nmix <= loc.len
        /\ loc.pc = "done" => loc.nmix = loc.len

\* a call of Komi32 has returned after two bulk blocks, three tail blocks
\* and a finalisation that mixed in the last 7 bytes
C15_Witness ==
    /\ loc.fn = "Komi32"
    /\ loc.pc = "done"
    /\ loc.len = 95
    /\ loc.tb = 3
    /\ loc.mix = 88..94
    /\ loc.nmix = 95

\* the seed-mixing step of Komi32_impl as komi32.h alone defines it, u being
\* UseSeed ^ MsgLen: Seed1 and Seed5 start from the two constants and
\* KOMI32_SEEDHASH4 of komi32.h is applied to the low half, then to the high
\* half of u
SeedMix(u) ==
    LET a == KOMI32_SEEDHASH4_komi(KomiSeed1, KomiSeed5, Lo32(u))
    IN  KOMI32_SEEDHASH4_komi(a.Seed1, a.Seed5, Hi32(u))

\* the call is right after the seed-mixing step of Komi32_impl
AfterKomiSeedMix ==
    /\ loc.fn = "Komi32"
    /\ loc.off = 0
    /\ loc.pc \in {"kempty", "klanes", "ktail"}

\* C16: for every accumulator value h the 64-to-32 fold of Mult32_impl
\* returns the Seed1 that Komi32_impl holds right after its seed-mixing step
\* when seed XOR n = h: the same two constants, exactly two seed-hash rounds,
\* low half first and high half second; KOMI32_SEEDHASH4 of mult32.h and
\* KOMI32_SEEDHASH4 of komi32.h compute the same update of (Seed1, Seed5).
C16_FoldIsSeedMix ==
    /\ (loc.fn = "Mult32" /\ loc.pc = "done") =>
           /\ loc.result = SeedMix(loc.hash).Seed1
           /\ loc.Seed5 = SeedMix(loc.hash).Seed5
           /\ loc.sh = 2
           /\ KOMI32_SEEDHASH4(KomiSeed1, KomiSeed5, Lo32(loc.hash))
                  = KOMI32_SEEDHASH4_komi(KomiSeed1, KomiSeed5, Lo32(loc.hash))
           /\ LET a == KOMI32_SEEDHASH4_komi(KomiSeed1, KomiSeed5, Lo32(loc.hash))
              IN  KOMI32_SEEDHASH4(a.Seed1, a.Seed5, Hi32(loc.hash))
                     = KOMI32_SEEDHASH4_komi(a.Seed1, a.Seed5, Hi32(loc.hash))
    /\ AfterKomiSeedMix =>
           /\ loc.Seed1 = SeedMix(Xor(loc.seed, ToWord(loc.len, 8))).Seed1
           /\ loc.Seed5 = SeedMix(Xor(loc.seed, ToWord(loc.len, 8))).Seed5
           /\ loc.sh = 2

\* a call of Mult32 has folded an accumulator whose two halves are non-zero
\* and different
C16_Witness ==
    /\ loc.fn = "Mult32"
    /\ loc.pc = "done"
    /\ Lo32(loc.hash) # Zero32
    /\ Hi32(loc.hash) # Zero32
    /\ Lo32(loc.hash) # Hi32(loc.hash)

\* the k of the tail switch for an input of length len
TailK(len) == ((len % 64) \div 8) % 8

\* C10 as stated: at the end of the tail switch of Mult32_impl, k blocks of
\* 8 bytes were consumed and exactly one parameterless round was made, for
\* every k in 0..7, and 0..7 bytes remain.
C10_OneRoundForEveryK ==
    (loc.fn = "Mult32" /\ loc.pc = "mfinal") =>
        /\ loc.tb = TailK(loc.len)
        /\ loc.trn = 1
        /\ loc.MsgLen \in 0..7

\* C10: at the end of the tail switch of Mult32_impl, k blocks of 8 bytes
\* were consumed, followed by exactly one parameterless round when k is in
\* 1..7 and by no round when k = 0, and 0..7 bytes remain.
C10_OneRoundUnlessKZero ==
    (loc.fn = "Mult32" /\ loc.pc = "mfinal") =>
        /\ loc.tb = TailK(loc.len)
        /\ loc.trn = (IF TailK(loc.len) = 0 THEN 0 ELSE 1)
        /\ loc.MsgLen = loc.len % 8
        /\ loc.MsgLen \in 0..7

\* the tail switch has consumed 7 blocks and made its round
C10_Witness ==
    /\ loc.fn = "Mult32"
    /\ loc.pc = "mfinal"
    /\ loc.tb = 7
    /\ loc.trn = 1

====
